---------------------------- MODULE Spec2Model ----------------------------
(***************************************************************************)
(* A model of the normalisation engine of the ERP intelligence layer:      *)
(* src/src/ingestion/csv_cleaner.py, class AutomatedCSVCleaner.            *)
(*                                                                         *)
(* Column names and cell texts are TLA+ strings; where the code looks      *)
(* inside a string (similarity scoring, currency stripping, date and       *)
(* number parsing) the string is spelled out character by character by     *)
(* Chars, and the operation is computed over those characters.             *)
(***************************************************************************)
EXTENDS Integers, Sequences, FiniteSets, TLC

(***************************************************************************)
(* Generic helpers on sequences.                                           *)
(***************************************************************************)
Range(s) == {s[i] : i \in 1..Len(s)}

Contains(s, x) == \E i \in 1..Len(s) : s[i] = x

IsInjective(s) == \A i, j \in 1..Len(s) : s[i] = s[j] => i = j

RECURSIVE SelectIdx(_, _, _)
\* the subsequence of s at the positions keep says to keep (a boolean mask)
SelectIdx(s, keep, i) ==
    IF i > Len(s) THEN <<>>
    ELSE (IF keep[i] THEN <<s[i]>> ELSE <<>>) \o SelectIdx(s, keep, i + 1)

Count(keep) == Cardinality({i \in DOMAIN keep : keep[i]})

\* every sequence without repetition over the set S, of length at most n
RECURSIVE InjSeqs(_, _)
InjSeqs(S, n) ==
    IF n = 0 THEN {<<>>}
    ELSE LET shorter == InjSeqs(S, n - 1)
         IN  shorter \cup UNION {{Append(s, x) : x \in S \ Range(s)} :
                                    s \in {t \in shorter : Len(t) = n - 1}}

\* every sequence over the set S of length at most n
RECURSIVE SeqsUpTo(_, _)
SeqsUpTo(S, n) == IF n = 0 THEN {<<>>} ELSE SeqsUpTo(S, n - 1) \cup [1..n -> S]

(***************************************************************************)
(* Characters.  The letters and digits, in the order Python compares them  *)
(* (digits before lower-case letters); everything else is a separator for  *)
(* fuzzywuzzy's full_process.                                              *)
(***************************************************************************)
Alnum == <<"0", "1", "2", "3", "4", "5", "6", "7", "8", "9",
           "a", "b", "c", "d", "e", "f", "g", "h", "i", "j", "k", "l", "m",
           "n", "o", "p", "q", "r", "s", "t", "u", "v", "w", "x", "y", "z">>

Upper == <<"A", "B", "C", "D", "E", "F", "G", "H", "I", "J", "K", "L", "M",
           "N", "O", "P", "Q", "R", "S", "T", "U", "V", "W", "X", "Y", "Z">>

Ord(c) == CHOOSE i \in 1..Len(Alnum) : Alnum[i] = c

ToLower(c) == IF Contains(Upper, c)
              THEN Alnum[10 + (CHOOSE i \in 1..Len(Upper) : Upper[i] = c)]
              ELSE c

IsAlnum(c) == Contains(Alnum, c) \/ Contains(Upper, c)

IsDigit(c) == c \in {"0", "1", "2", "3", "4", "5", "6", "7", "8", "9"}

DigitVal(c) == Ord(c) - 1



(***************************************************************************)
(* The column names of the model, spelled out.  Every header of a raw      *)
(* table and every expected column name of a profile is one of these.      *)
(***************************************************************************)
Chars(name) ==
    CASE name = "Bill No"        -> <<"B","i","l","l"," ","N","o">>
      [] name = "Bill Date"      -> <<"B","i","l","l"," ","D","a","t","e">>
      [] name = "Qty"            -> <<"Q","t","y">>
      [] name = "Item Qty"       -> <<"I","t","e","m"," ","Q","t","y">>
      [] name = "Qty Item"       -> <<"Q","t","y"," ","I","t","e","m">>
      [] name = "Rate"           -> <<"R","a","t","e">>
      [] name = "Voucher"        -> <<"V","o","u","c","h","e","r">>
      [] name = "Voucher Value"  -> <<"V","o","u","c","h","e","r"," ","V","a","l","u","e">>
      [] name = "Voucher Number" -> <<"V","o","u","c","h","e","r"," ","N","u","m","b","e","r">>
      [] name = "Notes"          -> <<"N","o","t","e","s">>

NamePool == {"Bill No", "Bill Date", "Qty", "Item Qty", "Qty Item", "Rate",
             "Voucher", "Voucher Value", "Voucher Number", "Notes"}

(***************************************************************************)
(* fuzzywuzzy: utils.full_process, fuzz.token_sort_ratio, process.extractOne *)
(* as called at csv_cleaner.py:79-84.                                      *)
(***************************************************************************)
RECURSIVE StripLeft(_)
StripLeft(s) == IF s # <<>> /\ Head(s) = " " THEN StripLeft(Tail(s)) ELSE s

RECURSIVE StripRight(_)
StripRight(s) ==
    IF s # <<>> /\ s[Len(s)] = " " THEN StripRight(SubSeq(s, 1, Len(s) - 1)) ELSE s

Strip(s) == StripRight(StripLeft(s))

\* full_process: non-alphanumerics to spaces, lower case, strip
FullProcess(s) ==
    Strip([i \in 1..Len(s) |-> IF IsAlnum(s[i]) THEN ToLower(s[i]) ELSE " "])

\* str.split(): the maximal runs of non-space characters
RECURSIVE SplitWs(_, _)
SplitWs(s, cur) ==
    IF s = <<>> THEN (IF cur = <<>> THEN <<>> ELSE <<cur>>)
    ELSE IF Head(s) = " "
         THEN (IF cur = <<>> THEN <<>> ELSE <<cur>>) \o SplitWs(Tail(s), <<>>)
         ELSE SplitWs(Tail(s), Append(cur, Head(s)))

\* a < b in Python's string order (both over Alnum)
RECURSIVE StrLess(_, _)
StrLess(a, b) ==
    IF b = <<>> THEN FALSE
    ELSE IF a = <<>> THEN TRUE
    ELSE IF Head(a) = Head(b) THEN StrLess(Tail(a), Tail(b))
    ELSE Ord(Head(a)) < Ord(Head(b))

RECURSIVE InsertSorted(_, _)
InsertSorted(t, sorted) ==
    IF sorted = <<>> THEN <<t>>
    ELSE IF StrLess(t, Head(sorted)) THEN <<t>> \o sorted
    ELSE <<Head(sorted)>> \o InsertSorted(t, Tail(sorted))

RECURSIVE SortTokens(_)
SortTokens(ts) == IF ts = <<>> THEN <<>> ELSE InsertSorted(Head(ts), SortTokens(Tail(ts)))

RECURSIVE JoinSpace(_)
JoinSpace(ts) ==
    IF ts = <<>> THEN <<>>
    ELSE IF Len(ts) = 1 THEN Head(ts)
    ELSE Head(ts) \o <<" ">> \o JoinSpace(Tail(ts))

\* fuzz._process_and_sort
ProcessAndSort(s) == Strip(JoinSpace(SortTokens(SplitWs(FullProcess(s), <<>>))))

\* one row of the longest-common-subsequence table: prev is the row above
RECURSIVE LcsRow(_, _, _, _, _)
LcsRow(c, b, prev, j, left) ==
    IF j > Len(b) THEN <<>>
    ELSE LET diag == IF j = 1 THEN 0 ELSE prev[j - 1]
             here == IF c = b[j] THEN diag + 1
                     ELSE IF prev[j] >= left THEN prev[j] ELSE left
         IN  <<here>> \o LcsRow(c, b, prev, j + 1, here)

RECURSIVE LcsRows(_, _, _, _)
LcsRows(a, b, i, prev) ==
    IF i > Len(a) THEN prev
    ELSE LcsRows(a, b, i + 1, LcsRow(a[i], b, prev, 1, 0))

LcsLen(a, b) ==
    IF a = <<>> \/ b = <<>> THEN 0
    ELSE LcsRows(a, b, 1, [j \in 1..Len(b) |-> 0])[Len(b)]

\* int(round(100 * num / den)), Python 3 rounding (half to even)
RoundPct(num, den) ==
    LET x == 100 * num
        q == x \div den
        r == x % den
    IN  IF 2 * r > den THEN q + 1
        ELSE IF 2 * r = den THEN q + (q % 2)
        ELSE q

\* fuzz.ratio: 2*M/T, M the matched characters, T the total length
Ratio(a, b) ==
    IF a = <<>> \/ b = <<>> THEN 0
    ELSE RoundPct(2 * LcsLen(a, b), Len(a) + Len(b))

TokenSortRatio(n1, n2) == Ratio(ProcessAndSort(Chars(n1)), ProcessAndSort(Chars(n2)))

ScoreTable == [a \in NamePool, b \in NamePool |-> TokenSortRatio(a, b)]

(***************************************************************************)
(* Program constants.                                                      *)
(***************************************************************************)
ScoreCutoff == 70

\* the fields of the universal schema used by the cleaner, and __init__'s
\* required_fields, in the order the code lists them
RequiredFields == <<"transaction_id", "transaction_date", "customer_name",
                    "product_name", "quantity", "unit_price", "total_amount">>

NumericCols == <<"quantity", "unit_price", "cost_price", "total_amount", "tax_amount">>

CanonicalFields == RequiredFields \o <<"cost_price", "tax_amount">>

\* the keys of erp_mappings, in the registry's iteration order
ErpNames == <<"gofrugal", "tally", "busy", "marg">>

(***************************************************************************)
(* State.                                                                  *)
(***************************************************************************)
VARIABLES
    call,             \* the method the caller invoked
    pc,               \* where that call is in the code
    erp_mappings,     \* self.erp_mappings: sequence of [name, mapping]
    input_csv,        \* the file at input_path: [columns, rows], every cell a text
    now,              \* the clock: today, as yyyymmdd
    erp_system,       \* clean_csv's erp_system / detect's result ("" is None)
    scores,           \* detect_erp_system's scores, one per profile in registry order
    confidence,       \* detect_erp_system's confidence, <<matches, len(mapping)>>
    df_columns,       \* fuzzy_match_columns' df_columns argument
    expected_mapping, \* fuzzy_match_columns' expected_mapping: sequence of [field, col]
    mi,               \* index of the mapping item the matcher's loop is at
    matched,          \* the matcher's dict, in insertion order: sequence of [col, field]
    unmatched,        \* the matcher's unmatched list
    best_match,       \* the matcher's local best_match: <<>> (None) or <<col, score>>
    df,               \* the DataFrame being cleaned
    report,           \* validate_data_quality's report
    error,            \* the exception that left the call ("" while there is none)
    output_csv,       \* the file at output_path: <<>> until written, then <<table>>
    printed           \* the warnings the code has printed, in order

envVars == <<call, erp_mappings, input_csv>>

detectVars == <<erp_system, scores, confidence>>

matcherVars == <<df_columns, expected_mapping, mi, matched, unmatched, best_match>>

tableVars == <<df, report, output_csv>>

vars == <<envVars, pc, now, detectVars, matcherVars, tableVars, error, printed>>

(***************************************************************************)
(* Python dict, as the sequence of its items in insertion order.           *)
(***************************************************************************)
DictHas(d, k) == \E i \in 1..Len(d) : d[i].col = k

DictGet(d, k) == d[CHOOSE i \in 1..Len(d) : d[i].col = k].field

\* d[k] = v: an existing key keeps its place and takes the new value
DictSet(d, k, v) ==
    IF DictHas(d, k)
    THEN [i \in 1..Len(d) |-> IF d[i].col = k THEN [col |-> k, field |-> v] ELSE d[i]]
    ELSE Append(d, [col |-> k, field |-> v])

(***************************************************************************)
(* detect_erp_system (csv_cleaner.py:39-62).                               *)
(***************************************************************************)
\* the count taken the other way round: the headers that are expected names
MatchesHeadersFound(mapping, columns) ==
    Cardinality({j \in 1..Len(columns) :
                    \E i \in 1..Len(mapping) : mapping[i].col = columns[j]})

\* line 50: how many of the mapping's expected columns are among the headers
Matches(mapping, columns) ==
    Cardinality({i \in 1..Len(mapping) : Contains(columns, mapping[i].col)})

\* the first key with the highest ratio of score to mapping size instead of
\* the highest score
DetectedIndexByRatio(sc) ==
    CHOOSE i \in 1..Len(sc) :
        /\ \A j \in 1..Len(sc) :
              sc[j] * Len(erp_mappings[i].mapping) <= sc[i] * Len(erp_mappings[j].mapping)
        /\ \A j \in 1..(i - 1) :
              sc[j] * Len(erp_mappings[i].mapping) < sc[i] * Len(erp_mappings[j].mapping)

\* the last key with the highest score instead of the first
DetectedIndexLastMax(sc) ==
    CHOOSE i \in 1..Len(sc) :
        /\ \A j \in 1..Len(sc) : sc[j] <= sc[i]
        /\ \A j \in (i + 1)..Len(sc) : sc[j] < sc[i]

\* line 53: max(scores, key=scores.get) returns the first key with the highest score
DetectedIndex(sc) ==
    CHOOSE i \in 1..Len(sc) :
        /\ \A j \in 1..Len(sc) : sc[j] <= sc[i]
        /\ \A j \in 1..(i - 1) : sc[j] < sc[i]

\* lines 47-51: the score of every profile
Scores(registry, columns) ==
    [i \in 1..Len(registry) |-> Matches(registry[i].mapping, columns)]

\* line 54: scores[detected] / len(mapping), kept as the fraction's two parts
Confidence(score, profile) == <<score, Len(profile.mapping)>>

\* line 59
LowConfidence(c) == 2 * c[1] < c[2]

(***************************************************************************)
(* fuzzy_match_columns (csv_cleaner.py:64-96).                             *)
(***************************************************************************)
\* the exact test never succeeding, so that every field goes to extractOne
ExactMatchSkipped(expected_name, columns) == FALSE

\* line 74: expected_name in df_columns
ExactMatch(expected_name, columns) == Contains(columns, expected_name)

\* extractOne keeping only the scores strictly above the cutoff
ExtractOneAboveCutoff(query, choices, cutoff) ==
    LET ok == {i \in 1..Len(choices) : ScoreTable[query, choices[i]] > cutoff}
    IN  IF ok = {} THEN <<>>
        ELSE LET b == CHOOSE i \in ok :
                        /\ \A j \in ok : ScoreTable[query, choices[j]] <= ScoreTable[query, choices[i]]
                        /\ \A j \in ok : j < i =>
                              ScoreTable[query, choices[j]] < ScoreTable[query, choices[i]]
             IN  <<choices[b], ScoreTable[query, choices[b]]>>

\* process.extractOne(query, choices, scorer=token_sort_ratio, score_cutoff):
\* the first choice, in list order, with the highest score among those at or
\* above the cutoff; None when there is none
ExtractOne(query, choices, cutoff) ==
    LET ok == {i \in 1..Len(choices) : ScoreTable[query, choices[i]] >= cutoff}
    IN  IF ok = {} THEN <<>>
        ELSE LET b == CHOOSE i \in ok :
                        /\ \A j \in ok : ScoreTable[query, choices[j]] <= ScoreTable[query, choices[i]]
                        /\ \A j \in ok : j < i =>
                              ScoreTable[query, choices[j]] < ScoreTable[query, choices[i]]
             IN  <<choices[b], ScoreTable[query, choices[b]]>>

(***************************************************************************)
(* Tables.  A DataFrame is its column names and its rows; a row is the     *)
(* sequence of its cells, in column order.  A cell is NaN/NaT/None (null), *)
(* a number, a string (spelled out) or a timestamp (a day, as yyyymmdd).   *)
(***************************************************************************)
Null == [t |-> "null", v |-> 0, s |-> <<>>]

Num(n) == [t |-> "num", v |-> n, s |-> <<>>]

Str(chars) == [t |-> "str", v |-> 0, s |-> chars]

Ts(day) == [t |-> "ts", v |-> day, s |-> <<>>]

IsNa(c) == c.t = "null"

HasCol(table, col) == Contains(table.columns, col)

ColIdx(table, col) == CHOOSE i \in 1..Len(table.columns) : table.columns[i] = col

\* df[col], as the sequence of the column's cells
Column(table, col) == [r \in 1..Len(table.rows) |-> table.rows[r][ColIdx(table, col)]]

\* df[col] = cells
SetColumn(table, col, cells) ==
    [table EXCEPT !.rows = [r \in 1..Len(table.rows) |->
                            [table.rows[r] EXCEPT ![ColIdx(table, col)] = cells[r]]]]

\* df[~mask]
DropRows(table, mask) ==
    [table EXCEPT !.rows = SelectIdx(table.rows, [r \in 1..Len(table.rows) |-> ~mask[r]], 1)]

AnyTrue(mask) == \E r \in DOMAIN mask : mask[r]

(***************************************************************************)
(* clean_numeric (csv_cleaner.py:117-126).                                 *)
(***************************************************************************)
RECURSIVE RemoveChar(_, _)
\* str.replace(ch, '')
RemoveChar(s, ch) ==
    IF s = <<>> THEN <<>>
    ELSE (IF Head(s) = ch THEN <<>> ELSE <<Head(s)>>) \o RemoveChar(Tail(s), ch)

RECURSIVE DigitsValue(_, _)
DigitsValue(s, acc) ==
    IF s = <<>> THEN acc ELSE DigitsValue(Tail(s), 10 * acc + DigitVal(Head(s)))

AllDigits(s) == s # <<>> /\ \A i \in 1..Len(s) : IsDigit(s[i])

\* whether a text reads as a number: an optional sign, then digits
IsNumberText(s) ==
    LET u == Strip(s)
    IN  \/ AllDigits(u)
        \/ u # <<>> /\ Head(u) \in {"-", "+"} /\ AllDigits(Tail(u))

NumberValue(s) ==
    LET u == Strip(s)
    IN  IF Head(u) = "-" THEN 0 - DigitsValue(Tail(u), 0)
        ELSE IF Head(u) = "+" THEN DigitsValue(Tail(u), 0)
        ELSE DigitsValue(u, 0)

\* line 121 on one element: Series.str methods give NaN for a non-string
StrCleanCell(c) ==
    IF c.t = "str" THEN Str(Strip(RemoveChar(RemoveChar(c.s, "₹"), ",")))
    ELSE Null

\* line 124 on one element: pd.to_numeric(errors='coerce')
ToNumericCell(c) ==
    IF c.t = "str"
    THEN (IF IsNumberText(c.s) THEN Num(NumberValue(c.s)) ELSE Null)
    ELSE c

\* line 120: df[col].dtype == 'object', the dtype of a column holding strings
IsObjectDtype(table, col) == \E r \in 1..Len(table.rows) : Column(table, col)[r].t = "str"

CleanNumeric(table, col) ==
    LET rows     == 1..Len(table.rows)
        stripped == IF IsObjectDtype(table, col)
                    THEN [r \in rows |-> StrCleanCell(Column(table, col)[r])]
                    ELSE Column(table, col)
    IN  SetColumn(table, col, [r \in rows |-> ToNumericCell(stripped[r])])

(***************************************************************************)
(* clean_dates (csv_cleaner.py:98-115).                                    *)
(***************************************************************************)
TwoDigits(s, i) == 10 * DigitVal(s[i]) + DigitVal(s[i + 1])

FourDigits(s, i) == 100 * TwoDigits(s, i) + TwoDigits(s, i + 2)

DigitsAt(s, idx) == \A i \in idx : IsDigit(s[i])

ValidDay(m, d) == m \in 1..12 /\ d \in 1..31

\* a text of the form YYYY-MM-DD
IsIsoDate(s) ==
    /\ Len(s) = 10 /\ s[5] = "-" /\ s[8] = "-"
    /\ DigitsAt(s, {1, 2, 3, 4, 6, 7, 9, 10})
    /\ ValidDay(TwoDigits(s, 6), TwoDigits(s, 9))

\* a text of the form AA/BB/YYYY: the month comes first unless only the
\* other reading is a date
IsSlashDate(s) ==
    /\ Len(s) = 10 /\ s[3] = "/" /\ s[6] = "/"
    /\ DigitsAt(s, {1, 2, 4, 5, 7, 8, 9, 10})
    /\ \/ ValidDay(TwoDigits(s, 1), TwoDigits(s, 4))
       \/ ValidDay(TwoDigits(s, 4), TwoDigits(s, 1))

SlashDay(s) ==
    LET a == TwoDigits(s, 1)
        b == TwoDigits(s, 4)
        y == FourDigits(s, 7)
    IN  IF ValidDay(a, b) THEN y * 10000 + a * 100 + b ELSE y * 10000 + b * 100 + a

\* line 101 on one element: pd.to_datetime(errors='coerce')
ToDatetimeCell(c) ==
    IF c.t = "str"
    THEN (IF IsIsoDate(c.s)
          THEN Ts(FourDigits(c.s, 1) * 10000 + TwoDigits(c.s, 6) * 100 + TwoDigits(c.s, 9))
          ELSE IF IsSlashDate(c.s) THEN Ts(SlashDay(c.s))
          ELSE Null)
    ELSE IF c.t = "num" THEN Ts(19700101)   \* a number is nanoseconds since the epoch
    ELSE c

DigitChar(n) == Alnum[n + 1]

TwoChars(n) == <<DigitChar(n \div 10), DigitChar(n % 10)>>

\* strftime('%d/%m/%Y'): a format to_datetime reads back month first
StrftimeDayFirst(day) ==
    LET y == day \div 10000
        m == (day \div 100) % 100
        d == day % 100
    IN  TwoChars(d) \o <<"/">> \o TwoChars(m) \o <<"/">>
        \o TwoChars(y \div 100) \o TwoChars(y % 100)

\* strftime('%Y-%m-%d')
Strftime(day) ==
    LET y == day \div 10000
        m == (day \div 100) % 100
        d == day % 100
    IN  TwoChars(y \div 100) \o TwoChars(y % 100) \o <<"-">> \o TwoChars(m)
        \o <<"-">> \o TwoChars(d)

\* line 110 on one element: NaT formats to NaN
StrftimeCell(c) == IF c.t = "ts" THEN Str(Strftime(c.v)) ELSE Null

\* line 104: df[date_col] > pd.Timestamp.now(); today is the day of now, and
\* a date is midnight of its day, so today itself is not in the future
FutureMask(table, col, today) ==
    [r \in 1..Len(table.rows) |-> Column(table, col)[r].t = "ts" /\ Column(table, col)[r].v > today]

CleanDates(table, date_col, today) ==
    LET parsed == SetColumn(table, date_col,
                            [r \in 1..Len(table.rows) |->
                                ToDatetimeCell(Column(table, date_col)[r])])
        future == FutureMask(parsed, date_col, today)
        kept   == IF AnyTrue(future) THEN DropRows(parsed, future) ELSE parsed
    IN  SetColumn(kept, date_col,
                  [r \in 1..Len(kept.rows) |-> StrftimeCell(Column(kept, date_col)[r])])

(***************************************************************************)
(* validate_data_quality (csv_cleaner.py:128-186).                         *)
(***************************************************************************)
Issue(kind, what, n) == [kind |-> kind, what |-> what, n |-> n]

\* duplicated(keep='last'): marks every row whose id occurs again further down
DuplicatedKeepLast(table) ==
    LET ids == Column(table, "transaction_id")
    IN  [r \in 1..Len(table.rows) |-> \E q \in (r + 1)..Len(table.rows) : ids[q] = ids[r]]

\* line 142: df.duplicated(subset=['transaction_id']) marks every row whose
\* id already occurred in an earlier row
Duplicated(table) ==
    LET ids == Column(table, "transaction_id")
    IN  [r \in 1..Len(table.rows) |-> \E q \in 1..(r - 1) : ids[q] = ids[r]]

\* line 150: df[field].isna()
NullMask(table, field) == [r \in 1..Len(table.rows) |-> IsNa(Column(table, field)[r])]

\* lines 157 and 164: (df[col] <= 0) | df[col].isna()
InvalidMask(table, col) ==
    [r \in 1..Len(table.rows) |->
        LET c == Column(table, col)[r]
        IN  (c.t = "num" /\ c.v <= 0) \/ IsNa(c)]

\* line 171: (cost_price > unit_price) & cost_price.notna()
NegativeMargin(table) ==
    [r \in 1..Len(table.rows) |->
        LET cost  == Column(table, "cost_price")[r]
            price == Column(table, "unit_price")[r]
        IN  cost.t = "num" /\ price.t = "num" /\ cost.v > price.v]

\* one rule that removes rows: st is [table, issues]
RemoveRule(st, mask, kind, what) ==
    IF AnyTrue(mask)
    THEN [df |-> DropRows(st.df, mask),
          issues |-> Append(st.issues, Issue(kind, what, Count(mask)))]
    ELSE st

\* lines 140-145
DedupRule(st) ==
    IF HasCol(st.df, "transaction_id")
    THEN RemoveRule(st, Duplicated(st.df), "duplicates", "transaction_id")
    ELSE st

\* the loop over required_fields leaving after its first field
NullRuleFirstFieldOnly(st, i) ==
    IF i = 1 /\ HasCol(st.df, RequiredFields[1])
    THEN RemoveRule(st, NullMask(st.df, RequiredFields[1]), "null", RequiredFields[1])
    ELSE st

RECURSIVE NullRule(_, _)
\* lines 147-153: the loop over required_fields, from the i-th on
NullRule(st, i) ==
    IF i > Len(RequiredFields) THEN st
    ELSE LET field == RequiredFields[i]
         IN  NullRule(IF HasCol(st.df, field)
                      THEN RemoveRule(st, NullMask(st.df, field), "null", field)
                      ELSE st,
                      i + 1)

\* lines 155-160 (quantity) and 162-167 (unit_price)
PositiveRule(st, col, kind) ==
    IF HasCol(st.df, col) THEN RemoveRule(st, InvalidMask(st.df, col), kind, col) ELSE st

\* lines 169-173: flags, removes nothing
MarginRule(st) ==
    IF HasCol(st.df, "cost_price") /\ HasCol(st.df, "unit_price")
       /\ AnyTrue(NegativeMargin(st.df))
    THEN [st EXCEPT !.issues = Append(@, Issue("margin", "cost_price",
                                               Count(NegativeMargin(st.df))))]
    ELSE st

\* lines 175-178
MissingRule(st) ==
    LET missing == {i \in 1..Len(RequiredFields) : ~HasCol(st.df, RequiredFields[i])}
    IN  IF missing # {}
        THEN [st EXCEPT !.issues = Append(@, Issue("missing", "", Cardinality(missing)))]
        ELSE st

\* the subtraction the wrong way round
RowsRemovedSwapped(original_len, final) == Len(final.rows) - original_len

\* line 180
RowsRemoved(original_len, final) == original_len - Len(final.rows)

\* the empty result let through
AllRowsRemovedIgnored(final_rows) == FALSE

\* line 183
AllRowsRemoved(final_rows) == final_rows = 0

NoReport == [original_rows |-> 0, issues_found |-> <<>>, rows_removed |-> 0,
             final_rows |-> 0]

\* the whole function: the table and report it returns, or that it raises
ValidateDataQuality(table) ==
    LET original_len == Len(table.rows)
        st == MissingRule(MarginRule(
                  PositiveRule(PositiveRule(NullRule(DedupRule(
                      [df |-> table, issues |-> <<>>]), 1),
                      "quantity", "quantity"), "unit_price", "price")))
        rep == [original_rows |-> original_len,
                issues_found  |-> st.issues,
                rows_removed  |-> RowsRemoved(original_len, st.df),
                final_rows    |-> Len(st.df.rows)]
    IN  [df |-> st.df, report |-> rep, raised |-> AllRowsRemoved(rep.final_rows)]

(***************************************************************************)
(* clean_csv (csv_cleaner.py:189-262).                                     *)
(***************************************************************************)
\* line 203, pd.read_csv: an empty field is NaN; a column whose other fields
\* all read as numbers is numeric, any other column keeps its texts
ReadCsv(file) ==
    LET numeric(c) == \A r \in 1..Len(file.rows) :
                          file.rows[r][c] = <<>> \/ IsNumberText(file.rows[r][c])
        cell(r, c) == IF file.rows[r][c] = <<>> THEN Null
                      ELSE IF numeric(c) THEN Num(NumberValue(file.rows[r][c]))
                      ELSE Str(file.rows[r][c])
    IN  [columns |-> file.columns,
         rows |-> [r \in 1..Len(file.rows) |->
                      [c \in 1..Len(file.columns) |-> cell(r, c)]]]

HasProfile(registry, name) == \E i \in 1..Len(registry) : registry[i].name = name

Profile(registry, name) == registry[CHOOSE i \in 1..Len(registry) : registry[i].name = name]

\* line 221: df.rename(columns=column_mapping)
RenameColumns(table, mapping) ==
    [table EXCEPT !.columns = [i \in 1..Len(table.columns) |->
        IF DictHas(mapping, table.columns[i]) THEN DictGet(mapping, table.columns[i])
        ELSE table.columns[i]]]

RECURSIVE CleanNumericCols(_, _)
\* lines 230-234: the loop over numeric_cols, from the i-th on
CleanNumericCols(table, i) ==
    IF i > Len(NumericCols) THEN table
    ELSE CleanNumericCols(IF HasCol(table, NumericCols[i])
                          THEN CleanNumeric(table, NumericCols[i]) ELSE table,
                          i + 1)

\* lines 244-245: the two metadata columns
AddMetadata(table, today) ==
    [columns |-> table.columns \o <<"loaded_at", "source_file">>,
     rows |-> [r \in 1..Len(table.rows) |->
                  table.rows[r] \o <<Str(Strftime(today)), Str(<<"f">>)>>]]

(***************************************************************************)
(* Bounds and input sets.                                                  *)
(***************************************************************************)
MaxRows == 3

MaxFileRows == 2

MaxHeaders == 3

MaxFields == 2

MaxProfiles == 2

\* the days the clock can show
Todays == {20240115, 20240215}

EmptyTable == [columns |-> <<>>, rows |-> <<>>]

\* a mapping from the expected column names cs: the i-th of these fields
\* expects cs[i] (the matcher and the detector never look at which field it is)
MappedFields == <<"quantity", "total_amount", "unit_price", "tax_amount", "cost_price">>

MappingOf(cs) == [i \in 1..Len(cs) |-> [field |-> MappedFields[i], col |-> cs[i]]]

RegistryOf(ms) == [i \in 1..Len(ms) |-> [name |-> ErpNames[i], mapping |-> ms[i]]]

\* names whose similarity scores fall on, under and over the cutoff
MatchPool == {"Item Qty", "Qty Item", "Voucher", "Voucher Value", "Voucher Number"}

\* the detector only asks which expected names are among the headers, so its
\* mappings and header lists are drawn in one order of the names
DetectPool == <<"Bill No", "Qty", "Rate">>

PoolIdx(x) == CHOOSE i \in 1..Len(DetectPool) : DetectPool[i] = x

DetectMappings ==
    {MappingOf(cs) : cs \in {c \in SeqsUpTo(Range(DetectPool), MaxFields) \ {<<>>} :
        \A i \in 1..(Len(c) - 1) : PoolIdx(c[i]) <= PoolIdx(c[i + 1])}}

DetectHeaderLists ==
    {c \in InjSeqs(Range(DetectPool), MaxHeaders) \ {<<>>} :
        \A i \in 1..(Len(c) - 1) : PoolIdx(c[i]) < PoolIdx(c[i + 1])}

\* the tables with the given columns and at most n rows, each cell of a
\* column drawn from cells[column]
RowsOver(cols, cells) ==
    {r \in [1..Len(cols) -> UNION {cells[cols[i]] : i \in 1..Len(cols)}] :
        \A i \in 1..Len(cols) : r[i] \in cells[cols[i]]}

TablesOver(cols, cells, n) ==
    {[columns |-> cols, rows |-> rs] : rs \in SeqsUpTo(RowsOver(cols, cells), n)}

\* the cells of the tables handed to validate_data_quality
ValCells == [col \in Range(CanonicalFields) |->
    CASE col = "transaction_id" -> {Num(1), Num(2), Null}
      [] col = "customer_name"  -> {Str(<<"a">>), Null}
      [] col = "quantity"       -> {Num(5), Num(-3), Null}
      [] col = "unit_price"     -> {Num(100), Num(0)}
      [] col = "cost_price"     -> {Num(50), Num(200)}
      [] OTHER                  -> {Null}]

ValColumnLists == {<<"transaction_id", "quantity", "unit_price">>,
                   <<"quantity", "unit_price", "cost_price">>,
                   <<"transaction_id", "customer_name">>}

\* the fields of the files handed to the cleaners and to clean_csv, by column
FileTexts == [col \in NamePool \cup {"quantity", "transaction_date", "date"} |->
    CASE col \in {"Bill No", "Voucher"} -> {<<"1">>, <<"2">>}
      [] col = "Bill Date" -> {<<"2","0","2","4","-","0","1","-","0","1">>,
                               <<"2","0","2","4","-","0","3","-","0","1">>,
                               <<"n","/","a">>}
      [] col \in {"Qty", "Item Qty"} -> {<<"5">>, <<"-","3">>, <<>>}
      [] col = "Rate" -> {<<"₹","1",",","2","0","0">>, <<"0">>}
      [] col = "Notes" -> {<<"x">>}
      [] col = "quantity" -> {<<"5">>, <<"-","3">>, <<" ","₹","1",",","2","0","0">>,
                              <<"a","b","c">>, <<>>}
      [] col = "transaction_date" ->
                              {<<"2","0","2","4","-","0","1","-","0","2">>,
                               <<"2","0","2","4","-","0","2","-","0","1">>,
                               <<"2","0","2","4","-","0","3","-","0","1">>,
                               <<"n","/","a">>, <<>>}
      [] col = "date" ->      {<<"0","1","/","0","2","/","2","0","2","4">>,
                               <<"0","2","/","0","1","/","2","0","2","4">>,
                               <<"1","3","/","0","1","/","2","0","2","4">>,
                               <<>>}
      [] OTHER -> {<<>>}]

\* the profiles of the driver's runs
DriverRegistry ==
    <<[name |-> "gofrugal",
       mapping |-> <<[field |-> "transaction_id",   col |-> "Bill No"],
                     [field |-> "transaction_date", col |-> "Bill Date"],
                     [field |-> "quantity",         col |-> "Qty"],
                     [field |-> "unit_price",       col |-> "Rate"]>>],
      [name |-> "tally",
       mapping |-> <<[field |-> "transaction_id", col |-> "Voucher"],
                     [field |-> "quantity",       col |-> "Item Qty"],
                     [field |-> "tax_amount",     col |-> "Qty Item"]>>]>>

DriverHeaderLists == {<<"Bill No", "Bill Date", "Qty">>,
                      <<"Bill No", "Qty", "Rate">>,
                      <<"Voucher", "Item Qty", "Notes">>}

\* "sap" is no key of the registry
DriverErpArgs == {"", "tally", "sap"}

(***************************************************************************)
(* Actions.                                                                *)
(***************************************************************************)
Warn(kind, what, n) == [kind |-> kind, what |-> what, n |-> n]

\* where a method goes when it returns: on to the driver's next stage, or
\* back to the caller who invoked it alone
Return(next) == IF call = "clean_csv" THEN next ELSE "done"

\* lines 202-211
ReadCsvStep ==
    /\ pc = "read"
    /\ df' = ReadCsv(input_csv)
    /\ pc' = IF erp_system = "" THEN "detect" ELSE "lookup"
    /\ UNCHANGED <<envVars, now, detectVars, matcherVars, report, output_csv, error, printed>>

\* detect_erp_system, lines 39-62
Detect ==
    /\ pc = "detect"
    /\ LET sc == Scores(erp_mappings, df.columns)
           d == DetectedIndex(sc)
           c == Confidence(sc[d], erp_mappings[d])
       IN  /\ scores' = sc
           /\ erp_system' = erp_mappings[d].name
           /\ confidence' = c
           /\ printed' = IF LowConfidence(c)
                         THEN Append(printed, Warn("low_confidence", erp_mappings[d].name, c[1]))
                         ELSE printed
    /\ pc' = Return("lookup")
    /\ UNCHANGED <<envVars, now, matcherVars, tableVars, error>>

\* lines 214-218: the profile's mapping, or KeyError for an unknown name
Lookup ==
    /\ pc = "lookup"
    /\ IF HasProfile(erp_mappings, erp_system)
       THEN /\ expected_mapping' = Profile(erp_mappings, erp_system).mapping
            /\ df_columns' = df.columns
            /\ pc' = "match"
            /\ error' = error
       ELSE /\ error' = "KeyError"
            /\ pc' = "raised"
            /\ UNCHANGED <<expected_mapping, df_columns>>
    /\ UNCHANGED <<envVars, now, detectVars, mi, matched, unmatched, best_match,
                   tableVars, printed>>

\* lines 72-76: the loop body for a field whose expected name is a header
MatchExact ==
    /\ pc = "match"
    /\ mi <= Len(expected_mapping)
    /\ ExactMatch(expected_mapping[mi].col, df_columns)
    /\ matched' = DictSet(matched, expected_mapping[mi].col, expected_mapping[mi].field)
    /\ mi' = mi + 1
    /\ UNCHANGED <<envVars, pc, now, detectVars, df_columns, expected_mapping,
                   unmatched, best_match, tableVars, error, printed>>

\* lines 78-91: the loop body for a field whose expected name is no header
MatchFuzzy ==
    /\ pc = "match"
    /\ mi <= Len(expected_mapping)
    /\ ~ExactMatch(expected_mapping[mi].col, df_columns)
    /\ LET universal_name == expected_mapping[mi].field
           best == ExtractOne(expected_mapping[mi].col, df_columns, ScoreCutoff)
       IN  /\ best_match' = best
           /\ IF best # <<>>
              THEN /\ matched' = DictSet(matched, best[1], universal_name)
                   /\ unmatched' = unmatched
                   /\ printed' = IF best[2] < 100
                                 THEN Append(printed, [kind |-> "fuzzy", what |-> universal_name,
                                                       n |-> best[2]])
                                 ELSE printed
              ELSE /\ unmatched' = Append(unmatched, universal_name)
                   /\ matched' = matched
                   /\ printed' = printed
    /\ mi' = mi + 1
    /\ UNCHANGED <<envVars, pc, now, detectVars, df_columns, expected_mapping,
                   tableVars, error>>

\* lines 93-96: the loop is over
MatchReturn ==
    /\ pc = "match"
    /\ mi > Len(expected_mapping)
    /\ printed' = IF unmatched # <<>>
                  THEN Append(printed, Warn("unmatched", "", Len(unmatched)))
                  ELSE printed
    /\ pc' = Return("rename")
    /\ UNCHANGED <<envVars, now, detectVars, matcherVars, tableVars, error>>

\* line 221
Rename ==
    /\ pc = "rename"
    /\ df' = RenameColumns(df, matched)
    /\ pc' = "dates"
    /\ UNCHANGED <<envVars, now, detectVars, matcherVars, report, output_csv, error, printed>>

\* the clock never runs backwards
Later(t) == t \in Todays /\ t >= now

\* lines 223-226
Dates ==
    /\ pc = "dates"
    /\ IF HasCol(df, "transaction_date")
       THEN \E t \in Todays :
               /\ Later(t)
               /\ now' = t
               /\ df' = CleanDates(df, "transaction_date", t)
               /\ printed' = IF Len(df'.rows) < Len(df.rows)
                             THEN Append(printed, Warn("future_dates", "transaction_date",
                                                       Len(df.rows) - Len(df'.rows)))
                             ELSE printed
       ELSE UNCHANGED <<now, df, printed>>
    /\ pc' = "numeric"
    /\ UNCHANGED <<envVars, detectVars, matcherVars, report, output_csv, error>>

\* lines 228-234
Numbers ==
    /\ pc = "numeric"
    /\ df' = CleanNumericCols(df, 1)
    /\ pc' = "validate"
    /\ UNCHANGED <<envVars, now, detectVars, matcherVars, report, output_csv, error, printed>>

\* validate_data_quality, lines 128-186 (and clean_csv's line 238)
Validate ==
    /\ pc = "validate"
    /\ LET res == ValidateDataQuality(df)
       IN  IF res.raised
           THEN /\ error' = "ValueError"
                /\ pc' = "raised"
                /\ UNCHANGED <<df, report>>
           ELSE /\ df' = res.df
                /\ report' = res.report
                /\ pc' = Return("stamp")
                /\ error' = error
    /\ UNCHANGED <<envVars, now, detectVars, matcherVars, output_csv, printed>>

\* lines 243-248
Stamp ==
    /\ pc = "stamp"
    /\ \E t \in Todays :
          /\ Later(t)
          /\ now' = t
          /\ df' = AddMetadata(df, t)
    /\ output_csv' = <<df'>>
    /\ pc' = "done"
    /\ UNCHANGED <<envVars, detectVars, matcherVars, report, error, printed>>

\* a caller applying clean_numeric to a column, and again to the result
CallCleanNumeric ==
    /\ call = "clean_numeric"
    /\ pc \in {"first", "second"}
    /\ df' = CleanNumeric(df, df.columns[1])
    /\ pc' = IF pc = "first" THEN "second" ELSE "done"
    /\ UNCHANGED <<envVars, now, detectVars, matcherVars, report, output_csv, error, printed>>

\* a caller applying clean_dates to a column, and again to the result
CallCleanDates ==
    /\ call = "clean_dates"
    /\ pc \in {"first", "second"}
    /\ \E t \in Todays :
          /\ Later(t)
          /\ now' = t
          /\ df' = CleanDates(df, df.columns[1], t)
          /\ printed' = IF Len(df'.rows) < Len(df.rows)
                        THEN Append(printed, Warn("future_dates", df.columns[1],
                                                  Len(df.rows) - Len(df'.rows)))
                        ELSE printed
    /\ pc' = IF pc = "first" THEN "second" ELSE "done"
    /\ UNCHANGED <<envVars, detectVars, matcherVars, report, output_csv, error>>

(***************************************************************************)
(* Specifications.                                                         *)
(***************************************************************************)
MatcherIdle ==
    /\ df_columns = <<>> /\ expected_mapping = <<>> /\ mi = 1
    /\ matched = <<>> /\ unmatched = <<>> /\ best_match = <<>>

Quiet ==
    /\ scores = <<>> /\ confidence = <<0, 0>> /\ report = NoReport /\ error = ""
    /\ output_csv = <<>> /\ printed = <<>>

\* clean_csv(input_path, output_path, erp_system) on a cleaner whose
\* registry is DriverRegistry
Init ==
    /\ call = "clean_csv" /\ pc = "read"
    /\ erp_mappings = DriverRegistry
    /\ \E cols \in DriverHeaderLists : input_csv \in TablesOver(cols, FileTexts, MaxFileRows)
    /\ erp_system \in DriverErpArgs
    /\ now \in Todays
    /\ df = EmptyTable
    /\ MatcherIdle /\ Quiet

Next ==
    \/ ReadCsvStep \/ Detect \/ Lookup
    \/ MatchExact \/ MatchFuzzy \/ MatchReturn
    \/ Rename \/ Dates \/ Numbers \/ Validate \/ Stamp

Spec == Init /\ [][Next]_vars

\* detect_erp_system(df) for any registry and any headers
InitDetect ==
    /\ call = "detect_erp_system" /\ pc = "detect"
    /\ erp_mappings \in {RegistryOf(ms) : ms \in SeqsUpTo(DetectMappings, MaxProfiles) \ {<<>>}}
    /\ \E cols \in DetectHeaderLists :
          /\ df = [columns |-> cols, rows |-> <<>>]
          /\ input_csv = df
    /\ erp_system = ""
    /\ now \in {20240115}
    /\ MatcherIdle /\ Quiet

SpecDetect == InitDetect /\ [][Detect]_vars

\* fuzzy_match_columns(df_columns, expected_mapping) for any headers and any
\* mapping that expects a different column for each of its fields
InitMatch ==
    /\ call = "fuzzy_match_columns" /\ pc = "match"
    /\ erp_mappings = <<>> /\ input_csv = EmptyTable /\ df = EmptyTable
    /\ erp_system = "" /\ now \in {20240115}
    /\ df_columns \in InjSeqs(MatchPool, MaxHeaders) \ {<<>>}
    /\ expected_mapping \in {MappingOf(cs) : cs \in InjSeqs(MatchPool, MaxFields)}
    /\ mi = 1 /\ matched = <<>> /\ unmatched = <<>> /\ best_match = <<>>
    /\ Quiet

NextMatch == MatchExact \/ MatchFuzzy \/ MatchReturn

SpecMatch == InitMatch /\ [][NextMatch]_vars

\* clean_numeric or clean_dates applied twice to a column read from a file
InitCleaners ==
    /\ call \in {"clean_numeric", "clean_dates"} /\ pc = "first"
    /\ erp_mappings = <<>> /\ erp_system = ""
    /\ \E col \in {"quantity", "transaction_date", "date"} :
          /\ (col = "quantity") <=> (call = "clean_numeric")
          /\ input_csv \in TablesOver(<<col>>, FileTexts, MaxRows)
    /\ df = ReadCsv(input_csv)
    /\ now \in Todays
    /\ MatcherIdle /\ Quiet

NextCleaners == CallCleanNumeric \/ CallCleanDates

SpecCleaners == InitCleaners /\ [][NextCleaners]_vars

\* validate_data_quality(df), called on its own, for any table of typed cells
InitValidateAlone ==
    /\ call = "validate_data_quality" /\ pc = "validate"
    /\ erp_mappings = <<>> /\ erp_system = "" /\ input_csv = EmptyTable
    /\ \E cols \in ValColumnLists : df \in TablesOver(cols, ValCells, MaxRows)
    /\ now \in {20240115}
    /\ MatcherIdle /\ Quiet

\* validate_data_quality on a table of typed cells, and on every table a
\* clean_csv run hands it
InitValidate == InitValidateAlone \/ Init

SpecValidate == InitValidate /\ [][Next]_vars

(***************************************************************************)
(* Claims.                                                                 *)
(***************************************************************************)
ValidatorReturned == pc \in {"stamp", "done"} /\ call \in {"validate_data_quality", "clean_csv"}

\* C1: whenever validate_data_quality returns normally, its report has
\* original_rows = the rows of the table it was given, final_rows = the rows
\* of the table it returns, and rows_removed = original_rows - final_rows.
C1_RowsRemovedIsDifference ==
    [][(pc = "validate" /\ pc' \in {"stamp", "done"}) =>
          /\ report'.original_rows = Len(df.rows)
          /\ report'.final_rows = Len(df'.rows)
          /\ report'.rows_removed = report'.original_rows - report'.final_rows]_vars

\* a return after the dedup rule and the quantity rule both removed rows
C1_Witness ==
    /\ ValidatorReturned
    /\ report.rows_removed = 2 /\ report.final_rows = 1
    /\ \E i, j \in 1..Len(report.issues_found) :
          /\ report.issues_found[i].kind = "duplicates"
          /\ report.issues_found[j].kind = "quantity"

\* C2: a clean_csv run whose validation leaves zero rows ends in the
\* "all rows removed" ValueError: no run reaches the metadata step, returns
\* or writes its output with an empty table, and a run that raised wrote nothing.
C2_NoEmptySuccess ==
    call = "clean_csv" =>
        /\ pc \in {"stamp", "done"} => Len(df.rows) >= 1 /\ report.final_rows >= 1
        /\ output_csv # <<>> => Len(output_csv[1].rows) >= 1
        /\ pc = "raised" => output_csv = <<>>

\* a run over a file with rows that ended in the ValueError
C2_Witness ==
    /\ call = "clean_csv" /\ pc = "raised" /\ error = "ValueError"
    /\ Len(input_csv.rows) >= 1 /\ output_csv = <<>>

\* the file's column that the profile in use declares for quantity holds a
\* number <= 0 in every row
QuantityAllNonPositive ==
    /\ HasProfile(erp_mappings, erp_system)
    /\ LET m == Profile(erp_mappings, erp_system).mapping
       IN  \E i \in 1..Len(m) :
              /\ m[i].field = "quantity"
              /\ HasCol(input_csv, m[i].col)
              /\ \A r \in 1..Len(input_csv.rows) :
                    LET txt == input_csv.rows[r][ColIdx(input_csv, m[i].col)]
                    IN  IsNumberText(txt) /\ NumberValue(txt) <= 0

\* C3: a clean_csv run over a file in which every row has quantity <= 0 ends
\* in the "all rows removed" ValueError and returns no table.
C3_NonPositiveQuantityRaises ==
    (call = "clean_csv" /\ pc \in {"stamp", "done", "raised"} /\ QuantityAllNonPositive)
        => pc = "raised" /\ error = "ValueError"

\* C4: in one fuzzy_match_columns call a header, once bound to a canonical
\* field, keeps that binding: no later field is bound to the same header.
C4_HeaderBoundOnce ==
    [][pc = "match" =>
          \A i \in 1..Len(matched) : \E j \in 1..Len(matched') : matched'[j] = matched[i]]_vars

TopScore(name, headers) ==
    CHOOSE n \in 0..100 :
        /\ \A i \in 1..Len(headers) : ScoreTable[name, headers[i]] <= n
        /\ \E i \in 1..Len(headers) : ScoreTable[name, headers[i]] = n

HeadersExactly(i) ==
    Range(df.columns) = {erp_mappings[i].mapping[k].col : k \in 1..Len(erp_mappings[i].mapping)}

\* how many expected columns of the i-th profile are among the headers
Present(i) ==
    Cardinality({k \in 1..Len(erp_mappings[i].mapping) :
                    erp_mappings[i].mapping[k].col \in Range(df.columns)})

Returns(i) == erp_system = erp_mappings[i].name /\ confidence[1] = confidence[2]

\* C7, as stated: when the headers are exactly the expected column names of a
\* registered profile P, detect_erp_system returns P with confidence 1.0.
C7_ExactHeadersDetected ==
    pc = "done" => \A i \in 1..Len(erp_mappings) : HeadersExactly(i) => Returns(i)

\* C7, amended: ... provided P expects at least one column, every profile
\* before P in the registry has fewer of its expected columns among the
\* headers than P has, and no profile after P has more.
C7_ExactHeadersDetectedUnlessOutscored ==
    pc = "done" =>
        \A i \in 1..Len(erp_mappings) :
            (/\ HeadersExactly(i)
             /\ Len(erp_mappings[i].mapping) >= 1
             /\ \A j \in 1..(i - 1) : Present(j) < Present(i)
             /\ \A j \in (i + 1)..Len(erp_mappings) : Present(j) <= Present(i))
            => Returns(i)

\* the second profile is detected on its exact headers, the first one having
\* some of them too
C7_Witness ==
    /\ pc = "done" /\ Len(erp_mappings) >= 2
    /\ HeadersExactly(2) /\ Returns(2)
    /\ Present(1) >= 1 /\ Present(1) < Present(2)

\* C8, as stated: when the headers are exactly profile A's expected columns,
\* matches / len(mapping) is 1.0 for A and below 1.0 for every other profile.
C8_OnlyExactProfileScoresOne ==
    pc = "done" =>
        \A i \in 1..Len(erp_mappings) : HeadersExactly(i) =>
            /\ scores[i] = Len(erp_mappings[i].mapping)
            /\ \A j \in 1..Len(erp_mappings) :
                  j # i => scores[j] < Len(erp_mappings[j].mapping)

\* C8, amended: ... and below 1.0 for every other profile that expects a
\* column which is not among A's expected columns.
C8_ProfilesWithOtherColumnsScoreLower ==
    pc = "done" =>
        \A i \in 1..Len(erp_mappings) : HeadersExactly(i) =>
            /\ scores[i] = Len(erp_mappings[i].mapping)
            /\ \A j \in 1..Len(erp_mappings) :
                  (\E k \in 1..Len(erp_mappings[j].mapping) :
                      \A l \in 1..Len(erp_mappings[i].mapping) :
                          erp_mappings[j].mapping[k].col # erp_mappings[i].mapping[l].col)
                  => scores[j] < Len(erp_mappings[j].mapping)

\* A scores 1.0 and another profile, sharing a column with A, scores lower
C8_Witness ==
    /\ pc = "done"
    /\ \E i, j \in 1..Len(erp_mappings) :
          /\ i # j /\ HeadersExactly(i)
          /\ scores[i] = Len(erp_mappings[i].mapping)
          /\ scores[j] >= 1 /\ scores[j] < Len(erp_mappings[j].mapping)

\* C9: in the table validate_data_quality returns (and clean_csv returns and
\* writes), no row is null in a required field that is a column of the table.
C9_NoNullInPresentRequiredField ==
    ValidatorReturned =>
        \A i \in 1..Len(RequiredFields) :
            HasCol(df, RequiredFields[i]) =>
                \A r \in 1..Len(df.rows) : ~IsNa(df.rows[r][ColIdx(df, RequiredFields[i])])

\* a return after a row was dropped for a null customer_name, of a table
\* that has no quantity column at all
C9_Witness ==
    /\ ValidatorReturned /\ Len(df.rows) >= 1
    /\ ~HasCol(df, "quantity") /\ HasCol(df, "customer_name")
    /\ \E i \in 1..Len(report.issues_found) :
          report.issues_found[i].kind = "null" /\ report.issues_found[i].what = "customer_name"

\* C10: applying clean_numeric, or clean_dates, to its own output leaves the
\* table as it is: the same rows with the same values.
C10_CleanersIdempotent ==
    [][(call \in {"clean_numeric", "clean_dates"} /\ pc = "second") => df' = df]_vars

\* clean_dates ran twice on a column from which the first run dropped a
\* future row and re-formatted the others
C10_Witness ==
    /\ call = "clean_dates" /\ pc = "done"
    /\ Len(df.rows) >= 1 /\ Len(df.rows) < Len(input_csv.rows)
    /\ df # ReadCsv(input_csv)
    /\ \E r \in 1..Len(df.rows) : df.rows[r][1].t = "str" /\ Str(input_csv.rows[r][1]) # df.rows[r][1]

\* the warnings a run printed for its recoverable conditions each have a line
\* of their kind in the report
WarningsReported ==
    \A i \in 1..Len(printed) :
        \E j \in 1..Len(report.issues_found) : report.issues_found[j].kind = printed[i].kind

\* C11: in a clean_csv run every recoverable condition that occurred (low
\* confidence, fuzzy match, unmatched field, future dates, validator rules)
\* has its line in the report's issues_found when the run returns, and a run
\* in which such conditions occurred ends in an error only by the zero-rows
\* ValueError.
C11_RecoverableConditionsReported ==
    call = "clean_csv" =>
        /\ pc \in {"stamp", "done"} => WarningsReported
        /\ (pc = "raised" /\ printed # <<>>) => error = "ValueError"

\* C12: every column of the table clean_csv returns and writes is a canonical
\* field or one of the two metadata columns loaded_at and source_file.
C12_OnlyCanonicalColumns ==
    (call = "clean_csv" /\ pc = "done") =>
        Range(df.columns) \subseteq Range(CanonicalFields) \cup {"loaded_at", "source_file"}

\* C13: detect_erp_system returns a profile with the highest number of its
\* expected columns among the headers, and of the profiles with that number
\* the first in the registry's order, whatever their confidence ratios.
C13_FirstMaxMatchCountReturned ==
    pc = "done" =>
        \E d \in 1..Len(erp_mappings) :
            /\ erp_system = erp_mappings[d].name
            /\ \A j \in 1..Len(erp_mappings) : Present(j) <= Present(d)
            /\ \A j \in 1..(d - 1) : Present(j) < Present(d)

\* two profiles tie on the count, the first is returned with a confidence
\* below 1.0 although every expected column of the second is a header
C13_Witness ==
    /\ pc = "done" /\ Len(erp_mappings) = 2
    /\ Present(1) = Present(2) /\ Present(1) >= 1
    /\ Present(2) = Len(erp_mappings[2].mapping)
    /\ erp_system = erp_mappings[1].name
    /\ confidence[1] < confidence[2]

\* The rules of the validator, row by row: the rows of table t that are the
\* first with their transaction_id
FirstOfId(t) ==
    {r \in 1..Len(t.rows) :
        HasCol(t, "transaction_id") =>
            \A q \in 1..(r - 1) : Column(t, "transaction_id")[q] # Column(t, "transaction_id")[r]}

\* ... and are not null in any of the first k required fields that are columns
AfterNulls(t, k) ==
    {r \in FirstOfId(t) :
        \A i \in 1..k : HasCol(t, RequiredFields[i]) => ~IsNa(Column(t, RequiredFields[i])[r])}

\* ... and have a value above 0 in col, when col is a column
AbovePositive(t, rs, col) ==
    {r \in rs : HasCol(t, col) =>
        (Column(t, col)[r].t = "num" /\ Column(t, col)[r].v > 0)}

AfterQuantity(t) == AbovePositive(t, AfterNulls(t, Len(RequiredFields)), "quantity")

AfterPrice(t) == AbovePositive(t, AfterQuantity(t), "unit_price")

\* the issues of the six rules in the fixed order, each counting the rows
\* that passed every earlier rule and fail this one; a rule that affects no
\* row writes no issue
ExpectedIssues(t) ==
    LET n == Len(RequiredFields)
        margin == IF HasCol(t, "cost_price") /\ HasCol(t, "unit_price")
                  THEN {r \in AfterPrice(t) :
                           /\ Column(t, "cost_price")[r].t = "num"
                           /\ Column(t, "cost_price")[r].v > Column(t, "unit_price")[r].v}
                  ELSE {}
        all == <<Issue("duplicates", "transaction_id",
                       Len(t.rows) - Cardinality(FirstOfId(t)))>>
               \o [i \in 1..n |->
                      Issue("null", RequiredFields[i],
                            Cardinality(AfterNulls(t, i - 1) \ AfterNulls(t, i)))]
               \o <<Issue("quantity", "quantity",
                          Cardinality(AfterNulls(t, n) \ AfterQuantity(t))),
                    Issue("price", "unit_price",
                          Cardinality(AfterQuantity(t) \ AfterPrice(t))),
                    Issue("margin", "cost_price", Cardinality(margin)),
                    Issue("missing", "",
                          Cardinality({i \in 1..n : ~HasCol(t, RequiredFields[i])}))>>
    IN  SelectSeq(all, LAMBDA issue : issue.n > 0)

\* the rows of t at the indices rs, in t's order
RowsAt(t, rs) == SelectIdx(t.rows, [r \in 1..Len(t.rows) |-> r \in rs], 1)

\* C14: a validate_data_quality call that returns applied dedup (first
\* occurrence kept), the null rule per required field, the quantity rule, the
\* price rule, the margin flag and the missing-field record in that order:
\* its issues are in that order, each count taken over the rows that passed
\* every earlier rule, and the rows returned are those that passed them all.
C14_RulesInFixedOrder ==
    [][(pc = "validate" /\ pc' \in {"stamp", "done"}) =>
          /\ report'.issues_found = ExpectedIssues(df)
          /\ df'.rows = RowsAt(df, AfterPrice(df))]_vars

\* a clean_csv run over a file with a row that repeats an id and has
\* quantity -3: the dedup rule removed it and the quantity rule, running on
\* what was left, found nothing
C14_Witness ==
    /\ call = "clean_csv" /\ pc = "done"
    /\ HasCol(input_csv, "Qty")
    /\ \E r \in 1..Len(input_csv.rows) : Column(input_csv, "Qty")[r] = <<"-", "3">>
    /\ Len(report.issues_found) >= 2
    /\ report.issues_found[1].kind = "duplicates"
    /\ report.issues_found[Len(report.issues_found)].kind = "missing"
    /\ \A j \in 1..Len(report.issues_found) : report.issues_found[j].kind # "quantity"

\* C15: no stage of a clean_csv run aborts the run except the validator's
\* zero-rows condition: a run that ended in an exception ended in that
\* ValueError, raised by validate_data_quality.
C15_OnlyZeroRowsAborts ==
    (call = "clean_csv" /\ pc = "raised") => error = "ValueError"

\* C16: when fuzzy_match_columns returns, every canonical field of the
\* mapping is the target of exactly one header of the returned dict or is in
\* the unmatched list, and never both.
C16_EveryFieldAccountedOnce ==
    (call = "fuzzy_match_columns" /\ pc = "done") =>
        \A k \in 1..Len(expected_mapping) :
            Cardinality({i \in 1..Len(matched) : matched[i].field = expected_mapping[k].field})
            + Cardinality({i \in 1..Len(unmatched) : unmatched[i] = expected_mapping[k].field})
            = 1

\* C17: in a clean_csv run that returns normally, the report's original_rows
\* is the number of rows of the file read, and rows_removed counts every row
\* of the file that is not in the returned table.
C17_OriginalRowsIsRawInput ==
    (call = "clean_csv" /\ pc \in {"stamp", "done"}) =>
        /\ report.original_rows = Len(input_csv.rows)
        /\ report.rows_removed = Len(input_csv.rows) - Len(df.rows)

=============================================================================
